---- MODULE Spec2Model ----
(***************************************************************************)
(* The OAuth PKCE token lifecycle of the local helper: the threaded Flask  *)
(* routes of main.py calling oauth_flow.get_valid_token, the token file of *)
(* token_storage.TokenStorage, and the module-level callback queue that    *)
(* /callback fills and initiate_authorization drains.                      *)
(*                                                                         *)
(* Every request thread runs get_valid_token as a sequence of steps, one   *)
(* per access to shared state (the token file, the queue, the clock) or    *)
(* per blocking call (a token-endpoint POST, the queue wait).  The token   *)
(* endpoint, the browser and the user are the environment: their answers   *)
(* are nondeterministic choices.                                           *)
(***************************************************************************)
EXTENDS Integers, Sequences, FiniteSets, TLC

----------------------------------------------------------------------------
(* Bounds of the model *)

NumThreads == 2
MaxCalls == 2
MaxCallbacks == 2
MaxTime == 4000
UnitMaxTime == 180
MaxLength == 130

(* Program constants *)

BufferSeconds == 60
DefaultExpiry == 3600
GetTimeout == 300

Threads == 1..NumThreads

(* How far the clock jumps in one Tick: past the lifetime of a token. *)
TickSteps == {3600}

----------------------------------------------------------------------------
(* Python / JSON values *)

(* Python's None; also an absent dict key as seen through dict.get *)
None == "None"

(* A JSON value as the code sees it: kind "none" is Python None (or JSON   *)
(* null), "nondict" a truthy JSON value that is no object, "dict" an       *)
(* object with the fields the code reads.  einK / expK say whether         *)
(* expires_in / expires_at is missing, a number, or something else.        *)
NoneVal == [kind |-> "none", at |-> None, rt |-> None,
            einK |-> "missing", ein |-> 0, expK |-> "missing", exp |-> 0]

NonDict == [kind |-> "nondict", at |-> None, rt |-> None,
            einK |-> "missing", ein |-> 0, expK |-> "missing", exp |-> 0]

Dict(at, rt, einK, ein, expK, exp) ==
    [kind |-> "dict", at |-> at, rt |-> rt,
     einK |-> einK, ein |-> ein, expK |-> expK, exp |-> exp]

(* {} : the object with no key at all *)
EmptyDict == Dict(None, None, "missing", 0, "missing", 0)

(* Python truthiness of a value: None and {} are falsy *)
Truthy(v) == v.kind # "none" /\ v # EmptyDict

(* tokens.get('access_token') / tokens.get('refresh_token') on a dict *)
GetAccessToken(v) == v.at
GetRefreshToken(v) == v.rt

(* The token file: absent, partial (opened for writing and truncated, not  *)
(* yet written), corrupt (bytes that do not parse), or a JSON value.       *)
FileAbsent == [st |-> "absent", val |-> NoneVal]
FilePartial == [st |-> "partial", val |-> NoneVal]
FileCorrupt == [st |-> "corrupt", val |-> NoneVal]
FileJson(v) == [st |-> "json", val |-> v]

(* What the token endpoint may answer on success *)
(* (a long-lived token with a refresh token, one with neither refresh     *)
(* token nor expires_in, a short-lived one, an object without              *)
(* access_token, a JSON value that is no object, null)                     *)
ResponseBodies ==
    { Dict("T1", "R1", "num", 3600, "missing", 0),
      Dict("T2", None, "missing", 0, "missing", 0),
      Dict("T2", "R1", "num", 30, "missing", 0),
      Dict(None, None, "num", 3600, "missing", 0),
      NonDict, NoneVal }

(* What may be on disk when the helper starts *)
InitFiles ==
    { FileAbsent, FileCorrupt, FileJson(NonDict),
      FileJson(Dict("T0", "R0", "num", 3600, "num", 3600)),
      FileJson(Dict("T0", "R0", "num", 3600, "num", 0)),
      FileJson(Dict("T0", None, "num", 3600, "num", 0)) }

Max(a, b) == IF a >= b THEN a ELSE b

(* config.py: CLIENT_ID and AUTH_WORKER_URL are os.getenv values, None     *)
(* when the variable is not set (lines 12, 21; the check of lines 60-68    *)
(* logs and goes on); REDIRECT_URI and SCOPES are always there (18, 32).   *)
Config(client_id, auth_worker_url) ==
    [CLIENT_ID |-> client_id, AUTH_WORKER_URL |-> auth_worker_url,
     REDIRECT_URI |-> "http://localhost:8990/callback",
     SCOPES |-> "openid profile email offline_access vault_api"]

FullConfig == Config("client", "https://auth")

Configs == { Config(c, u) : c \in {"client", None},
                            u \in {"https://auth", None} }

(* oauth_utils.calculate_pkce_challenge: the S256 challenge of verifier v, *)
(* a value that is no verifier and differs for different verifiers         *)
calculate_pkce_challenge(v) == <<"S256", v>>

(* initiate_authorization with the challenge method left out of params *)
auth_url_without_method(cfg, challenge) ==
    [base |-> <<cfg.AUTH_WORKER_URL, "/authorize">>,
     query |-> [response_type |-> "code",
                client_id |-> cfg.CLIENT_ID,
                redirect_uri |-> cfg.REDIRECT_URI,
                scope |-> cfg.SCOPES,
                code_challenge |-> challenge]]

(* initiate_authorization, lines 163-172: the authorization URL, its base  *)
(* and the query that urlencode makes of params (str(None) is "None")      *)
auth_url(cfg, challenge) ==
    [base |-> <<cfg.AUTH_WORKER_URL, "/authorize">>,
     query |-> [response_type |-> "code",
                client_id |-> cfg.CLIENT_ID,
                redirect_uri |-> cfg.REDIRECT_URI,
                scope |-> cfg.SCOPES,
                code_challenge |-> challenge,
                code_challenge_method |-> "S256"]]

(* No URL built yet *)
NoUrl == [base |-> <<None, None>>, query |-> [none |-> None]]

----------------------------------------------------------------------------
VARIABLES
    file,       \* the token file ~/.mcp-helper/tokens.json
    orphans,    \* threads whose open file handle points at a removed file
    queue,      \* main._auth_code_queue: the items put and not yet got
    now,        \* time.time()
    pc,         \* per thread: where it is in its route handler
    tokens,     \* per thread: get_valid_token's tokens (the loaded record)
    newrec,     \* per thread: the response body being saved and returned
    verifier,   \* per thread: initiate_authorization's verifier (attempt id)
    code,       \* per thread: the queue item initiate_authorization got
    result,     \* per thread: what get_valid_token returned
    waitStart,  \* per thread: the clock when queue.get was called
    calls,      \* route requests accepted so far
    attempts,   \* authorization URLs built so far
    ncb,        \* /callback requests served so far
    trace,      \* per thread: what the current call has done (history)
    unit,       \* the last call made on TokenStorage / oauth_utils alone
    config      \* the settings config.py read from the environment at startup

vars == <<file, orphans, queue, now, pc, tokens, newrec, verifier, code,
          result, waitStart, calls, attempts, ncb, trace, unit, config>>

(* History of one get_valid_token call.  path: how it ended or where it is *)
(* heading; refresh: the outcome of its refresh request; the counters      *)
(* count its token-endpoint requests, browser opens, queue gets, file      *)
(* writes and file removals; cbAtOpen is ncb when its browser was opened;   *)
(* cause: which except branch of exchange_code_for_token made it fail;     *)
(* bearer: the token the API client finds for the request the route makes  *)
(* once get_valid_token has returned one ("unset" before that); url: the   *)
(* authorization URL its attempt opened.                                   *)
NoTrace ==
    [path |-> "none", refresh |-> "none", refreshReqs |-> 0, exchReqs |-> 0,
     opens |-> 0, takes |-> 0, writes |-> 0, clears |-> 0, cbAtOpen |-> 0,
     cause |-> "none", bearer |-> "unset", url |-> NoUrl]

(* An item of the queue: val 0 is the None that signals an error, val a>0  *)
(* is the authorization code issued for the URL of attempt a.  seq and     *)
(* status are history: the number of the /callback request that put the    *)
(* item and the HTTP status that request was answered with.                *)
Item(val, seq, status) == [val |-> val, seq |-> seq, status |-> status]
NoItem == Item(0, 0, 0)

(* A call made on TokenStorage or oauth_utils by itself, outside            *)
(* get_valid_token: op the function called and prev the one called before  *)
(* it, rec its record argument, n its integer argument (buffer_seconds,    *)
(* length), clock the time of the call; exp the boolean, val the record    *)
(* and len the length of the string it returned, enc the length of the     *)
(* string before it was cut, raised whether it raised.  load_tokens and    *)
(* clear_tokens take no argument and read no clock: rec and clock are      *)
(* then those of the call before.                                          *)
NoUnit ==
    [op |-> "none", prev |-> "none", rec |-> NoneVal, n |-> 0, clock |-> 0,
     exp |-> FALSE, val |-> NoneVal, len |-> 0, enc |-> 0, raised |-> FALSE]

----------------------------------------------------------------------------
(* token_storage.TokenStorage *)

(* load_tokens that lets the parse error out: the caller gets no None *)
load_tokens_unguarded(f) ==
    IF f.st = "json" THEN f.val
    ELSE IF f.st = "absent" THEN NoneVal
    ELSE NonDict

(* load_tokens: None when the file does not exist or does not parse *)
load_tokens(f) == IF f.st = "json" THEN f.val ELSE NoneVal

(* clear_tokens that empties the file instead of removing it *)
clear_tokens_truncates(f) == FileCorrupt

(* clear_tokens that leaves the file in place *)
clear_tokens_keeps(f) == f

(* clear_tokens: os.remove when the file exists *)
clear_tokens(f) == FileAbsent

(* is_token_expired that forgets the buffer *)
is_token_expired_no_buffer(tk, buffer_seconds, f, t) ==
    LET v == IF tk.kind = "none" THEN load_tokens(f) ELSE tk IN
    IF ~Truthy(v) \/ v.expK = "missing" THEN TRUE
    ELSE IF v.expK # "num" THEN TRUE
    ELSE t >= v.exp

(* is_token_expired with the comparison turned around *)
is_token_expired_inverted(tk, buffer_seconds, f, t) ==
    LET v == IF tk.kind = "none" THEN load_tokens(f) ELSE tk IN
    IF ~Truthy(v) \/ v.expK = "missing" THEN TRUE
    ELSE IF v.expK # "num" THEN TRUE
    ELSE t <= v.exp - buffer_seconds

(* is_token_expired(tokens, buffer_seconds) on file content f at time t *)
is_token_expired(tk, buffer_seconds, f, t) ==
    LET v == IF tk.kind = "none" THEN load_tokens(f) ELSE tk IN
    IF ~Truthy(v) \/ v.expK = "missing" THEN TRUE
    ELSE IF v.expK # "num" THEN TRUE
    ELSE t >= v.exp - buffer_seconds

(* McpApiClient._get_access_token: the stored access token when the       *)
(* stored record is truthy and not expired, else None                      *)
get_access_token(f, t) ==
    LET tk == load_tokens(f) IN
    IF Truthy(tk) /\ ~is_token_expired(tk, BufferSeconds, f, t)
    THEN GetAccessToken(tk)
    ELSE None

(* save_tokens that stores the lifetime instead of the time of expiry *)
with_expires_at_relative(v, t) ==
    IF v.einK = "num"
    THEN [v EXCEPT !.expK = "num", !.exp = v.ein]
    ELSE [v EXCEPT !.expK = "num", !.exp = DefaultExpiry]

(* save_tokens without the default lifetime of lines 43-46 *)
with_expires_at_no_default(v, t) ==
    IF v.einK = "num"
    THEN [v EXCEPT !.expK = "num", !.exp = t + v.ein]
    ELSE v

(* save_tokens, lines 41-46: the record with its expires_at *)
with_expires_at(v, t) ==
    IF v.einK = "num"
    THEN [v EXCEPT !.expK = "num", !.exp = t + v.ein]
    ELSE [v EXCEPT !.expK = "num", !.exp = t + DefaultExpiry]

(* save_tokens, line 48: open(token_file, 'w') creates or truncates *)
save_open(f) == FilePartial

(* save_tokens, line 49: json.dump and close, by a writer whose handle is  *)
(* orphaned (the file was removed since it was opened: the bytes go to the *)
(* unlinked file), alone on the file (it is as this writer truncated it),  *)
(* or overlapping another writer's bytes (the result parses only when      *)
(* this writer's bytes cover the other's).                                 *)
save_write(f, v, orphaned) ==
    IF orphaned THEN {f}
    ELSE IF f.st = "partial" THEN {FileJson(v)}
    ELSE {FileJson(v), FileCorrupt}

----------------------------------------------------------------------------
(* oauth_utils *)

(* len(base64.urlsafe_b64encode(b)) for n bytes b: four characters for     *)
(* every three bytes, the last group padded with '='                       *)
urlsafe_b64encode_len(n) == 4 * ((n + 2) \div 3)

(* the number of '=' that rstrip(b'=') removes *)
padding_len(n) == (3 - (n % 3)) % 3

(* generate_pkce_verifier drawing half as many random bytes *)
generate_pkce_verifier_half(length) ==
    IF ~(43 <= length /\ length <= 128)
    THEN [raised |-> TRUE, enc |-> 0, len |-> 0]
    ELSE LET nbytes == length \div 2
             enc == urlsafe_b64encode_len(nbytes) - padding_len(nbytes)
         IN [raised |-> FALSE, enc |-> enc,
             len |-> IF enc < length THEN enc ELSE length]

(* generate_pkce_verifier(length): ValueError outside 43..128; else the    *)
(* unpadded encoding of token_bytes(length), cut to its first length       *)
(* characters.  Of the string its length is kept.                          *)
generate_pkce_verifier(length) ==
    IF ~(43 <= length /\ length <= 128)
    THEN [raised |-> TRUE, enc |-> 0, len |-> 0]
    ELSE LET nbytes == length
             enc == urlsafe_b64encode_len(nbytes) - padding_len(nbytes)
         IN [raised |-> FALSE, enc |-> enc,
             len |-> IF enc < length THEN enc ELSE length]

----------------------------------------------------------------------------
(* oauth_callback that answers every request with the success page *)
oauth_callback_always_ok(c, e) ==
    IF c # 0 THEN [put |-> c, status |-> 200]
    ELSE [put |-> 0, status |-> 200]

(* main.oauth_callback: what the request puts on the queue (0 is None) and *)
(* the status it answers; c = 0 is a missing or empty code parameter.      *)
oauth_callback(c, e) ==
    IF c # 0 THEN [put |-> c, status |-> 200]
    ELSE IF e THEN [put |-> 0, status |-> 400]
    ELSE [put |-> 0, status |-> 400]

----------------------------------------------------------------------------
InitServer ==
    /\ file \in InitFiles
    /\ orphans = {}
    /\ queue = <<>>
    /\ now = 0
    /\ pc = [t \in Threads |-> "idle"]
    /\ tokens = [t \in Threads |-> NoneVal]
    /\ newrec = [t \in Threads |-> NoneVal]
    /\ verifier = [t \in Threads |-> 0]
    /\ code = [t \in Threads |-> NoItem]
    /\ result = [t \in Threads |-> None]
    /\ waitStart = [t \in Threads |-> 0]
    /\ calls = 0
    /\ attempts = 0
    /\ ncb = 0
    /\ trace = [t \in Threads |-> NoTrace]
    /\ unit = NoUnit

(* The helper started with every setting in its environment *)
Init == InitServer /\ config = FullConfig

(* The helper started with any of the two settings missing *)
ConfigInit == InitServer /\ config \in Configs

Goto(t, label) == pc' = [pc EXCEPT ![t] = label]

(* get_valid_token returns r to its route handler (or raises, r =          *)
(* "Raised") on path p, after a failure of cause c if any; its locals and  *)
(* those of initiate_authorization are gone, and of the call's history the *)
(* path and the cause alone are kept.  With a token in hand the route goes *)
(* straight on to its API client, which looks the token up in the file     *)
(* (no step that returns a token changes the file or the clock).           *)
ReturnCause(t, r, p, c) ==
    /\ result' = [result EXCEPT ![t] = r]
    /\ tokens' = [tokens EXCEPT ![t] = NoneVal]
    /\ newrec' = [newrec EXCEPT ![t] = NoneVal]
    /\ verifier' = [verifier EXCEPT ![t] = 0]
    /\ code' = [code EXCEPT ![t] = NoItem]
    /\ waitStart' = [waitStart EXCEPT ![t] = 0]
    /\ trace' = [trace EXCEPT ![t] =
                    [NoTrace EXCEPT !.path = p, !.cause = c,
                                    !.bearer = IF r \in {None, "Raised"}
                                               THEN "unset"
                                               ELSE get_access_token(file,
                                                                     now)]]
    /\ Goto(t, "done")

ReturnValue(t, r, p) == ReturnCause(t, r, p, "none")

(* run_task, get_vault, clear_vault: the status the route answers with     *)
(* when get_valid_token has returned r or raised.  With a token the route  *)
(* goes on to its task and the status is the task's (0 here).              *)
route_status(r) ==
    IF r = "Raised" THEN 500
    ELSE IF r = None THEN 401
    ELSE 0

(* get_valid_token goes on at label *)
Continue(t, label) ==
    /\ Goto(t, label)
    /\ UNCHANGED <<result, tokens, verifier, code, waitStart>>

(* Threads that hold the token file open for writing *)
Writers == {t \in Threads : pc[t] = "save_write"}

(* The file and the handles after clear_tokens *)
DoClear ==
    /\ file' = clear_tokens(file)
    /\ orphans' = IF file.st = "absent" THEN orphans ELSE orphans \cup Writers

(* run_task / get_vault / clear_vault on a thread that is free or has      *)
(* answered its last request, up to get_valid_token's lines 235-257:       *)
(* load_tokens and the branch on the loaded record                         *)
StartCall(t) ==
    /\ pc[t] \in {"idle", "done"}
    /\ calls < MaxCalls
    /\ calls' = calls + 1
    /\ LET tk == load_tokens(file) IN
       IF ~Truthy(tk)
       THEN /\ Goto(t, "auth")
            /\ tokens' = [tokens EXCEPT ![t] = tk]
            /\ result' = [result EXCEPT ![t] = None]
            /\ trace' = [trace EXCEPT ![t] = NoTrace]
            /\ UNCHANGED <<newrec, verifier, code, waitStart>>
       ELSE IF tk.kind = "nondict"
       THEN ReturnValue(t, "Raised", "raised")
       ELSE IF ~is_token_expired(tk, BufferSeconds, file, now)
       THEN ReturnValue(t, GetAccessToken(tk), "stored")
       ELSE /\ Goto(t, IF GetRefreshToken(tk) # None THEN "refresh"
                       ELSE "clear")
            /\ tokens' = [tokens EXCEPT ![t] = tk]
            /\ result' = [result EXCEPT ![t] = None]
            /\ trace' = [trace EXCEPT ![t] = NoTrace]
            /\ UNCHANGED <<newrec, verifier, code, waitStart>>
    /\ UNCHANGED <<file, orphans, queue, now, attempts, ncb, unit, config>>

(* get_valid_token without line 255 *)
GvtClear_skipped(t) ==
    /\ pc[t] = "clear"
    /\ Continue(t, "auth")
    /\ UNCHANGED <<file, orphans, trace, queue, now, newrec, calls, attempts,
                   ncb, unit, config>>

(* get_valid_token, line 255: expired and no refresh token *)
GvtClear(t) ==
    /\ pc[t] = "clear"
    /\ DoClear
    /\ trace' = [trace EXCEPT ![t].clears = @ + 1]
    /\ Continue(t, "auth")
    /\ UNCHANGED <<queue, now, newrec, calls, attempts, ncb, unit, config>>

(* requests.post to f"{config.AUTH_WORKER_URL}/token": with the setting     *)
(* missing the URL is "None/token", requests raises MissingSchema (a       *)
(* RequestException) and nothing is sent; the only outcome among S is the  *)
(* transport error, and there is no response body.                         *)
Answers(S) ==
    IF config.AUTH_WORKER_URL = None THEN S \cap {"network_error"} ELSE S

Bodies == IF config.AUTH_WORKER_URL = None THEN {} ELSE ResponseBodies

(* The token endpoint's answers to a refresh request that make             *)
(* refresh_access_token return None without touching the file: an OAuth    *)
(* error other than invalid_grant, an error status with a body that is no  *)
(* JSON, a transport error, a success status with a body that is no JSON.  *)
RefreshFailures == {"oauth_error", "nonjson_error", "network_error", "bad_json"}

(* The same for an exchange request *)
ExchangeFailures == {"http_error", "network_error", "bad_json"}

(* save_tokens(body) up to the open of line 48, in a call whose history    *)
(* becomes h, then the return of the body to get_valid_token.  A body that *)
(* is no dict makes save_tokens raise before it opens the file, which it   *)
(* swallows; get_valid_token then takes None for a failure (onNone) and    *)
(* raises on .get of a truthy non-dict.                                    *)
SaveAndReturn(t, body, h, onNone) ==
    IF body.kind = "dict"
    THEN /\ file' = save_open(file)
         /\ newrec' = [newrec EXCEPT ![t] = with_expires_at(body, now)]
         /\ trace' = [trace EXCEPT ![t] = h]
         /\ Continue(t, "save_write")
    ELSE IF body.kind = "nondict"
    THEN /\ ReturnValue(t, "Raised", "raised")
         /\ UNCHANGED file
    ELSE /\ onNone
         /\ UNCHANGED file

(* get_valid_token that posts the refresh request again after a failure   *)
(* that is no invalid_grant                                                *)
Refresh_retries(t) ==
    /\ pc[t] = "refresh"
    /\ \/ /\ config.AUTH_WORKER_URL # None
          /\ DoClear
          /\ trace' = [trace EXCEPT ![t].refresh = "invalid_grant",
                                    ![t].refreshReqs = @ + 1,
                                    ![t].clears = @ + 1]
          /\ Continue(t, "auth")
          /\ UNCHANGED newrec
       \/ /\ \E o \in Answers(RefreshFailures) :
                trace' = [trace EXCEPT ![t].refresh = "failed",
                                       ![t].refreshReqs = @ + 1]
          /\ Continue(t, "refresh")
          /\ UNCHANGED <<file, orphans, newrec>>
       \/ /\ \E body \in Bodies :
                SaveAndReturn(t, body,
                    [trace[t] EXCEPT !.refresh = "ok", !.path = "refresh",
                                     !.refreshReqs = @ + 1],
                    /\ Continue(t, "auth")
                    /\ trace' = [trace EXCEPT ![t].refresh = "null",
                                              ![t].refreshReqs = @ + 1]
                    /\ UNCHANGED newrec)
          /\ UNCHANGED orphans
    /\ UNCHANGED <<queue, now, calls, attempts, ncb, unit, config>>

(* refresh_access_token that clears the stored tokens on every error      *)
(* answer, not on invalid_grant alone                                      *)
Refresh_clears_on_failure(t) ==
    /\ pc[t] = "refresh"
    /\ \/ /\ config.AUTH_WORKER_URL # None
          /\ DoClear
          /\ trace' = [trace EXCEPT ![t].refresh = "invalid_grant",
                                    ![t].refreshReqs = @ + 1,
                                    ![t].clears = @ + 1]
          /\ Continue(t, "auth")
          /\ UNCHANGED newrec
       \/ /\ \E o \in Answers(RefreshFailures) :
                trace' = [trace EXCEPT ![t].refresh = "failed",
                                       ![t].refreshReqs = @ + 1]
          /\ DoClear
          /\ Continue(t, "auth")
          /\ UNCHANGED newrec
       \/ /\ \E body \in Bodies :
                SaveAndReturn(t, body,
                    [trace[t] EXCEPT !.refresh = "ok", !.path = "refresh",
                                     !.refreshReqs = @ + 1],
                    /\ Continue(t, "auth")
                    /\ trace' = [trace EXCEPT ![t].refresh = "null",
                                              ![t].refreshReqs = @ + 1]
                    /\ UNCHANGED newrec)
          /\ UNCHANGED orphans
    /\ UNCHANGED <<queue, now, calls, attempts, ncb, unit, config>>

(* refresh_access_token, lines 104-147, up to the open of save_tokens *)
Refresh(t) ==
    /\ pc[t] = "refresh"
    /\ \/ /\ config.AUTH_WORKER_URL # None
          /\ DoClear
          /\ trace' = [trace EXCEPT ![t].refresh = "invalid_grant",
                                    ![t].refreshReqs = @ + 1,
                                    ![t].clears = @ + 1]
          /\ Continue(t, "auth")
          /\ UNCHANGED newrec
       \/ /\ \E o \in Answers(RefreshFailures) :
                trace' = [trace EXCEPT ![t].refresh = "failed",
                                       ![t].refreshReqs = @ + 1]
          /\ Continue(t, "auth")
          /\ UNCHANGED <<file, orphans, newrec>>
       \/ /\ \E body \in Bodies :
                SaveAndReturn(t, body,
                    [trace[t] EXCEPT !.refresh = "ok", !.path = "refresh",
                                     !.refreshReqs = @ + 1],
                    /\ Continue(t, "auth")
                    /\ trace' = [trace EXCEPT ![t].refresh = "null",
                                              ![t].refreshReqs = @ + 1]
                    /\ UNCHANGED newrec)
          /\ UNCHANGED orphans
    /\ UNCHANGED <<queue, now, calls, attempts, ncb, unit, config>>

(* save_tokens, line 49, as called by refresh_access_token (128) and       *)
(* exchange_code_for_token (66)                                            *)
SaveWrite(t) ==
    /\ pc[t] = "save_write"
    /\ file' \in save_write(file, newrec[t], t \in orphans)
    /\ orphans' = orphans \ {t}
    /\ trace' = [trace EXCEPT ![t].writes = @ + 1]
    /\ Continue(t, "ret")
    /\ UNCHANGED <<queue, now, newrec, calls, attempts, ncb, unit, config>>

(* get_valid_token, lines 248-250 and 273-275: the saved record's token *)
GvtReturn(t) ==
    /\ pc[t] = "ret"
    /\ ReturnValue(t, GetAccessToken(newrec[t]), trace[t].path)
    /\ UNCHANGED <<file, orphans, queue, now, calls, attempts, ncb, unit, config>>

(* initiate_authorization that takes its verifier from a module-level     *)
(* value generated once, instead of generating one per attempt             *)
AuthOpen_reuses_verifier(t) ==
    /\ pc[t] = "auth"
    /\ attempts' = attempts + 1
    /\ verifier' = [verifier EXCEPT ![t] = 1]
    /\ waitStart' = [waitStart EXCEPT ![t] = now]
    /\ trace' = [trace EXCEPT
                    ![t].opens = @ + 1, ![t].cbAtOpen = ncb,
                    ![t].url = auth_url(config, calculate_pkce_challenge(1))]
    /\ Goto(t, "wait")
    /\ UNCHANGED <<file, orphans, queue, now, tokens, newrec, code, result,
                   calls, ncb, unit, config>>

(* initiate_authorization, lines 158-190: the PKCE pair, the URL, the      *)
(* browser, and the call of queue.get                                      *)
AuthOpen(t) ==
    /\ pc[t] = "auth"
    /\ attempts' = attempts + 1
    /\ verifier' = [verifier EXCEPT ![t] = attempts + 1]
    /\ waitStart' = [waitStart EXCEPT ![t] = now]
    /\ trace' = [trace EXCEPT
                    ![t].opens = @ + 1, ![t].cbAtOpen = ncb,
                    ![t].url = auth_url(config,
                                   calculate_pkce_challenge(attempts + 1))]
    /\ Goto(t, "wait")
    /\ UNCHANGED <<file, orphans, queue, now, tokens, newrec, code, result,
                   calls, ncb, unit, config>>

(* initiate_authorization that calls queue.get again when the item it got *)
(* is the None of a failed callback                                        *)
QueueGet_retries(t) ==
    /\ pc[t] = "wait"
    /\ queue # <<>>
    /\ queue' = Tail(queue)
    /\ IF Head(queue).val # 0
       THEN /\ code' = [code EXCEPT ![t] = Head(queue)]
            /\ Goto(t, "exchange")
            /\ trace' = [trace EXCEPT ![t].takes = @ + 1]
            /\ UNCHANGED <<result, tokens, newrec, verifier, waitStart>>
       ELSE UNCHANGED <<pc, code, trace, result, tokens, newrec, verifier,
                        waitStart>>
    /\ UNCHANGED <<file, orphans, now, calls, attempts, ncb, unit, config>>

(* initiate_authorization without the return of line 195: it goes on to   *)
(* the exchange with the None it got                                       *)
QueueGet_ignores_error(t) ==
    /\ pc[t] = "wait"
    /\ queue # <<>>
    /\ queue' = Tail(queue)
    /\ code' = [code EXCEPT ![t] = Head(queue)]
    /\ Goto(t, "exchange")
    /\ trace' = [trace EXCEPT ![t].takes = @ + 1]
    /\ UNCHANGED <<result, tokens, newrec, verifier, waitStart>>
    /\ UNCHANGED <<file, orphans, now, calls, attempts, ncb, unit, config>>

(* initiate_authorization, lines 190-195: queue.get returns an item *)
QueueGet(t) ==
    /\ pc[t] = "wait"
    /\ queue # <<>>
    /\ queue' = Tail(queue)
    /\ IF Head(queue).val # 0
       THEN /\ code' = [code EXCEPT ![t] = Head(queue)]
            /\ Goto(t, "exchange")
            /\ trace' = [trace EXCEPT ![t].takes = @ + 1]
            /\ UNCHANGED <<result, tokens, newrec, verifier, waitStart>>
       ELSE ReturnValue(t, None, "callback_error")
    /\ UNCHANGED <<file, orphans, now, calls, attempts, ncb, unit, config>>

(* queue.get() called without its timeout: it blocks until an item comes *)
QueueTimeout_never(t) ==
    /\ pc[t] = "wait"
    /\ FALSE
    /\ UNCHANGED vars

(* initiate_authorization, lines 196-198: queue.get raises Empty after     *)
(* 300 seconds with nothing to get                                         *)
QueueTimeout(t) ==
    /\ pc[t] = "wait"
    /\ queue = <<>>
    /\ now' = Max(now, waitStart[t] + GetTimeout)
    /\ ReturnValue(t, None, "timeout")
    /\ UNCHANGED <<file, orphans, queue, calls, attempts, ncb, unit, config>>

(* exchange_code_for_token that clears the stored tokens when the request *)
(* fails, as refresh_access_token does on invalid_grant                    *)
Exchange_clears_on_failure(t) ==
    /\ pc[t] = "exchange"
    /\ \/ /\ \E o \in Answers(ExchangeFailures) :
                ReturnCause(t, None, "exchange_failed", o)
          /\ DoClear
       \/ /\ \E body \in Bodies :
                SaveAndReturn(t, body,
                    [trace[t] EXCEPT !.path = "exchange", !.exchReqs = @ + 1],
                    ReturnValue(t, None, "exchange_failed"))
          /\ UNCHANGED orphans
    /\ UNCHANGED <<queue, now, calls, attempts, ncb, unit, config>>

(* exchange_code_for_token, lines 57-85, up to the open of save_tokens *)
Exchange(t) ==
    /\ pc[t] = "exchange"
    /\ \/ /\ \E o \in Answers(ExchangeFailures) :
                ReturnCause(t, None, "exchange_failed", o)
          /\ UNCHANGED file
       \/ \E body \in Bodies :
             SaveAndReturn(t, body,
                 [trace[t] EXCEPT !.path = "exchange", !.exchReqs = @ + 1],
                 ReturnValue(t, None, "exchange_failed"))
    /\ UNCHANGED <<orphans, queue, now, calls, attempts, ncb, unit, config>>

(* GET /callback on a queue made with maxsize=1: put blocks while the     *)
(* queue holds an item                                                     *)
Callback_bounded(c, e) ==
    /\ ncb < MaxCallbacks
    /\ Len(queue) < 1
    /\ ncb' = ncb + 1
    /\ queue' = Append(queue, Item(oauth_callback(c, e).put, ncb + 1,
                                   oauth_callback(c, e).status))
    /\ UNCHANGED <<file, orphans, now, pc, tokens, newrec, verifier, code,
                   result, waitStart, calls, attempts, trace, unit, config>>

(* main.oauth_callback: GET /callback with code c (0: none) and error e *)
Callback(c, e) ==
    /\ ncb < MaxCallbacks
    /\ ncb' = ncb + 1
    /\ queue' = Append(queue, Item(oauth_callback(c, e).put, ncb + 1,
                                   oauth_callback(c, e).status))
    /\ UNCHANGED <<file, orphans, now, pc, tokens, newrec, verifier, code,
                   result, waitStart, calls, attempts, trace, unit, config>>

(* Time passes between requests, up to MaxTime.  Within a request the     *)
(* clock advances by the queue wait alone: a call lasts at most the 300    *)
(* seconds of its wait and the 30 of each POST, far less than the lifetime *)
(* of a token.                                                             *)
Tick ==
    /\ \A t \in Threads : pc[t] \in {"idle", "done"}
    /\ \E d \in TickSteps : now + d <= MaxTime /\ now' = now + d
    /\ UNCHANGED <<file, orphans, queue, pc, tokens, newrec, verifier, code,
                   result, waitStart, calls, attempts, ncb, trace,
                   unit, config>>

Next ==
    \/ \E t \in Threads : StartCall(t)
    \/ \E t \in Threads : GvtClear(t)
    \/ \E t \in Threads : Refresh(t)
    \/ \E t \in Threads : SaveWrite(t)
    \/ \E t \in Threads : GvtReturn(t)
    \/ \E t \in Threads : AuthOpen(t)
    \/ \E t \in Threads : QueueGet(t)
    \/ \E t \in Threads : QueueTimeout(t)
    \/ \E t \in Threads : Exchange(t)
    \/ \E c \in 0..attempts, e \in BOOLEAN : Callback(c, e)
    \/ Tick

Spec == Init /\ [][Next]_vars

(* The steps of the request thread t once its call has started.  Each is   *)
(* a computation or a blocking call with a timeout (30 seconds for a POST, *)
(* 300 for queue.get), so a thread that can take a step does so.           *)
ThreadStep(t) ==
    \/ GvtClear(t)
    \/ Refresh(t)
    \/ SaveWrite(t)
    \/ GvtReturn(t)
    \/ AuthOpen(t)
    \/ QueueGet(t)
    \/ QueueTimeout(t)
    \/ Exchange(t)

(* The server with its threads scheduled fairly.  New requests, /callback  *)
(* requests and the passing of time between requests are not forced.       *)
LiveSpec == Spec /\ \A t \in Threads : WF_vars(ThreadStep(t))

----------------------------------------------------------------------------
(* TokenStorage used by itself, by one caller: any sequence of             *)
(* is_token_expired, save_tokens, load_tokens and clear_tokens calls on    *)
(* the token file, with time passing between the calls; and oauth_utils    *)
(* used by itself.  No request is being served.                            *)

serverVars == <<orphans, queue, pc, tokens, newrec, verifier, code, result,
                waitStart, calls, attempts, ncb, trace, config>>

(* The records a caller passes at time t: none, the empty object, a token  *)
(* response (no expires_at yet, with and without expires_in), and stored   *)
(* records that expire 30, 60 and 120 seconds from t, or whose expires_at  *)
(* is no number.                                                           *)
UnitRecords(t) ==
    { NoneVal, EmptyDict,
      Dict("T1", "R1", "num", 30, "missing", 0),
      Dict("T2", None, "missing", 0, "missing", 0),
      Dict("T1", "R1", "num", 120, "num", t + 30),
      Dict("T1", "R1", "num", 120, "num", t + 60),
      Dict("T1", None, "missing", 0, "num", t + 120),
      Dict("T1", "R1", "num", 120, "other", 0) }

(* buffer_seconds as passed: none, and the default *)
UnitBuffers == {0, BufferSeconds}

(* The lengths asked of generate_pkce_verifier *)
UnitLengths == (0 - 1)..MaxLength

UnitIsExpired(tk, b) ==
    /\ unit' = [NoUnit EXCEPT !.op = "is_token_expired", !.prev = unit.op,
                              !.rec = tk, !.n = b, !.clock = now,
                              !.exp = is_token_expired(tk, b, file, now)]
    /\ UNCHANGED <<file, now, serverVars>>

(* save_tokens(v) from its first to its last line; a v that is no dict     *)
(* makes it raise before the open, which it swallows                       *)
UnitSave(v) ==
    /\ IF v.kind = "dict"
       THEN file' \in save_write(save_open(file), with_expires_at(v, now),
                                 FALSE)
       ELSE file' = file
    /\ unit' = [NoUnit EXCEPT !.op = "save_tokens", !.prev = unit.op,
                              !.rec = v, !.clock = now]
    /\ UNCHANGED <<now, serverVars>>

UnitLoad ==
    /\ unit' = [NoUnit EXCEPT !.op = "load_tokens", !.prev = unit.op,
                              !.rec = unit.rec, !.clock = unit.clock,
                              !.val = load_tokens(file)]
    /\ UNCHANGED <<file, now, serverVars>>

UnitClear ==
    /\ file' = clear_tokens(file)
    /\ unit' = [NoUnit EXCEPT !.op = "clear_tokens", !.prev = unit.op]
    /\ UNCHANGED <<now, serverVars>>

UnitVerifier(length) ==
    /\ LET r == generate_pkce_verifier(length) IN
       unit' = [NoUnit EXCEPT !.op = "generate_pkce_verifier",
                              !.prev = unit.op, !.n = length, !.len = r.len,
                              !.enc = r.enc, !.raised = r.raised]
    /\ UNCHANGED <<file, now, serverVars>>

UnitTick ==
    /\ now + 30 <= UnitMaxTime
    /\ now' = now + 30
    /\ UNCHANGED <<file, unit, serverVars>>

UnitNext ==
    \/ \E tk \in UnitRecords(now), b \in UnitBuffers : UnitIsExpired(tk, b)
    \/ \E v \in UnitRecords(now) : UnitSave(v)
    \/ UnitLoad
    \/ UnitClear
    \/ UnitTick

UnitSpec == Init /\ [][UnitNext]_vars

PkceNext == \E length \in UnitLengths : UnitVerifier(length)

PkceSpec == Init /\ [][PkceNext]_vars

----------------------------------------------------------------------------
(* The server on a disk that can fail: save_tokens catches every exception *)
(* of its open and of its json.dump (token_storage.py, lines 53-56) and    *)
(* returns as if it had saved.                                             *)

(* exchange_code_for_token whose save_tokens fails in open (line 48): the  *)
(* record has its expires_at, the file is as it was, the body is returned  *)
ExchangeSaveFails(t) ==
    /\ pc[t] = "exchange"
    /\ \E body \in Bodies :
          /\ body.kind = "dict"
          /\ newrec' = [newrec EXCEPT ![t] = with_expires_at(body, now)]
    /\ trace' = [trace EXCEPT ![t].path = "exchange", ![t].exchReqs = @ + 1]
    /\ Continue(t, "ret")
    /\ UNCHANGED <<file, orphans, queue, now, calls, attempts, ncb, unit, config>>

(* refresh_access_token whose save_tokens fails in open *)
RefreshSaveFails(t) ==
    /\ pc[t] = "refresh"
    /\ \E body \in Bodies :
          /\ body.kind = "dict"
          /\ newrec' = [newrec EXCEPT ![t] = with_expires_at(body, now)]
    /\ trace' = [trace EXCEPT ![t].path = "refresh", ![t].refresh = "ok",
                              ![t].refreshReqs = @ + 1]
    /\ Continue(t, "ret")
    /\ UNCHANGED <<file, orphans, queue, now, calls, attempts, ncb, unit, config>>

(* save_tokens without its except branches: the exception of json.dump    *)
(* (line 49) leaves save_tokens, and get_valid_token raises                *)
SaveWriteFails_raises(t) ==
    /\ pc[t] = "save_write"
    /\ file' = IF t \in orphans THEN file ELSE FileCorrupt
    /\ orphans' = orphans \ {t}
    /\ ReturnValue(t, "Raised", "raised")
    /\ UNCHANGED <<queue, now, calls, attempts, ncb, unit, config>>

(* save_tokens whose json.dump fails after the open (line 49): the file    *)
(* this writer truncated holds bytes that do not parse, unless its handle  *)
(* points at a removed file                                                *)
SaveWriteFails(t) ==
    /\ pc[t] = "save_write"
    /\ file' = IF t \in orphans THEN file ELSE FileCorrupt
    /\ orphans' = orphans \ {t}
    /\ Continue(t, "ret")
    /\ UNCHANGED <<trace, queue, now, newrec, calls, attempts, ncb, unit, config>>

IoNext ==
    \/ Next
    \/ \E t \in Threads : ExchangeSaveFails(t)
    \/ \E t \in Threads : RefreshSaveFails(t)
    \/ \E t \in Threads : SaveWriteFails(t)

IoSpec == Init /\ [][IoNext]_vars

(* The server started with any of its settings missing *)
ConfigSpec == ConfigInit /\ [][Next]_vars

----------------------------------------------------------------------------
(* The claims *)

(* The sections of get_valid_token that talk to the token endpoint, wait   *)
(* for the callback, or hold the token file open                           *)
InFlight == {"refresh", "wait", "exchange", "save_write"}

(* The file holds a record that is not expired at time t, by the           *)
(* definition of the specification: expires_at is a number and             *)
(* t < expires_at - 60                                                     *)
FreshRecord(f, t) ==
    /\ f.st = "json"
    /\ f.val.kind = "dict"
    /\ f.val.expK = "num"
    /\ t < f.val.exp - 60

(* C1: when the refresh request of a call fails for a reason other than    *)
(* invalid_grant, that call starts no authorization attempt: it opens no   *)
(* browser and waits for no callback.                                      *)
C1_RefreshFailureFailsFast ==
    \A t \in Threads :
        trace[t].refresh = "failed" =>
            /\ trace[t].opens = 0
            /\ pc[t] \notin {"wait", "exchange"}

(* C2: a call that finds a stored record that is not expired returns that  *)
(* record's access_token at once: the call is over with the step that      *)
(* loaded the record (so it sends no token-endpoint request), and that     *)
(* step opens no browser, gets nothing from the queue and leaves the token *)
(* file as it is.                                                          *)
C2_FreshRecordReturned ==
    [][\A t \in Threads :
         (StartCall(t) /\ FreshRecord(file, now)) =>
            /\ pc'[t] = "done"
            /\ result'[t] = file.val.at
            /\ trace'[t].path = "stored"
            /\ UNCHANGED <<file, orphans, queue, attempts, ncb, now>>]_vars

C2_Witness ==
    \E t \in Threads :
        /\ pc[t] = "done"
        /\ trace[t].path = "stored"
        /\ result[t] = "T0"
        /\ FreshRecord(file, now)

(* C3: every item a call gets from the queue was put by a /callback        *)
(* request served after that call opened its browser.                      *)
C3_NoStaleValueConsumed ==
    [][\A t \in Threads :
         QueueGet(t) => Head(queue).seq > trace[t].cbAtOpen]_vars

(* C4: at most one get_valid_token call at a time is in its refresh,       *)
(* callback-wait, exchange or save section.                                *)
C4_SingleFlight ==
    Cardinality({t \in Threads : pc[t] \in InFlight}) <= 1

(* C5: the step in which a refresh request is rejected with invalid_grant  *)
(* leaves the token file absent, so that a load right then yields None,    *)
(* and sends the call on to a full authorization: such a call never        *)
(* returns without having opened the browser.                              *)
C5_InvalidGrantClearsAndReauthorizes ==
    [][\A t \in Threads :
         /\ (pc[t] = "refresh" /\ trace'[t].refresh = "invalid_grant") =>
                /\ load_tokens(file') = NoneVal
                /\ file'.st = "absent"
                /\ pc'[t] = "auth"
         /\ (trace[t].refresh = "invalid_grant" /\ pc'[t] = "done") =>
                trace[t].opens = 1]_vars

C5_Witness ==
    \E t \in Threads :
        /\ trace[t].refresh = "invalid_grant"
        /\ pc[t] = "wait"
        /\ trace[t].opens = 1
        /\ file.st = "absent"

(* C6: a call whose refresh request succeeds writes the new record to the  *)
(* token file (the file holds it when save_tokens has written), then       *)
(* returns the new record's access_token, and has opened no browser.       *)
C6_RefreshSuccessPersistsAndReturns ==
    [][\A t \in Threads :
         /\ (SaveWrite(t) /\ trace[t].refresh = "ok") =>
                file' = FileJson(newrec[t])
         /\ (GvtReturn(t) /\ trace[t].refresh = "ok") =>
                /\ result'[t] = newrec[t].at
                /\ trace[t].writes = 1
                /\ trace[t].opens = 0]_vars

(* C7: at the moment get_valid_token returns a token obtained by a code    *)
(* exchange, the token file holds a record with that access_token and an   *)
(* expires_at.                                                             *)
C7_ExchangedRecordInFileAtReturn ==
    \A t \in Threads :
        (pc[t] = "ret" /\ trace[t].path = "exchange" /\ newrec[t].at # None) =>
            /\ file.st = "json"
            /\ file.val.at = newrec[t].at
            /\ file.val.expK = "num"

(* C8: a queue wait during which no /callback request was served ends with *)
(* get_valid_token returning a failure, without an exchange request and    *)
(* with the token file as it was.                                          *)
C8_NoDeliveryMeansFailure ==
    [][\A t \in Threads :
         (pc[t] = "wait" /\ pc'[t] # "wait" /\ ncb = trace[t].cbAtOpen) =>
            /\ pc'[t] = "done"
            /\ result'[t] = None
            /\ file' = file]_vars

(* C9: calls that failed for different causes (the error sentinel, the     *)
(* timeout, a failed exchange) returned different values.                  *)
C9_FailureCausesDistinguished ==
    \A t1, t2 \in Threads :
        ( /\ pc[t1] = "done" /\ pc[t2] = "done"
          /\ trace[t1].path \in {"callback_error", "timeout", "exchange_failed"}
          /\ trace[t2].path \in {"callback_error", "timeout", "exchange_failed"}
          /\ trace[t1].path # trace[t2].path )
        => result[t1] # result[t2]

(* C10: a load that runs while a save has the token file open and not yet  *)
(* written returns a record, never None.                                   *)
C10_LoadNeverSeesPartialFile ==
    [][\A t \in Threads :
         (StartCall(t) /\ file.st = "partial") =>
            load_tokens(file) # NoneVal]_vars

(* C11: get_valid_token never raises: every call ends by returning an      *)
(* access token or the failure value to its route handler.                 *)
C11_NeverRaises ==
    \A t \in Threads : result[t] # "Raised"

(* The record in file f is expired and carries no refresh token *)
ExpiredNoRefresh(f, t) ==
    /\ f.st = "json"
    /\ f.val.kind = "dict"
    /\ Truthy(f.val)
    /\ is_token_expired(f.val, BufferSeconds, f, t)
    /\ f.val.rt = None

(* C13: a call that loads an expired record without a refresh token goes   *)
(* on to remove the token file, sends no refresh request, and only then    *)
(* starts the authorization attempt: when it opens the browser it has      *)
(* cleared once and refreshed never.                                       *)
C13_ExpiredNoRefreshClearsFirst ==
    [][\A t \in Threads :
         /\ (StartCall(t) /\ ExpiredNoRefresh(file, now)) =>
                /\ pc'[t] = "clear"
                /\ trace'[t].refreshReqs = 0
         /\ (pc[t] = "clear" /\ pc'[t] # "clear") =>
                /\ file'.st = "absent"
                /\ pc'[t] = "auth"
                /\ trace'[t].clears = 1
                /\ trace'[t].refreshReqs = 0
                /\ trace'[t].opens = 0
         /\ (pc[t] = "auth" /\ pc'[t] # "auth" /\ Truthy(tokens[t])
               /\ tokens[t].rt = None) =>
                /\ trace'[t].clears = 1
                /\ trace'[t].refreshReqs = 0]_vars

C13_Witness ==
    \E t \in Threads :
        /\ pc[t] = "wait"
        /\ Truthy(tokens[t])
        /\ tokens[t].rt = None
        /\ trace[t].clears = 1
        /\ trace[t].refreshReqs = 0
        /\ file.st = "absent"

(* C15: the record save_tokens hands to the file carries a numeric         *)
(* expires_at, the clock of the save plus expires_in when expires_in is a  *)
(* number and plus 3600 when it is missing; and whenever its write changes *)
(* the file into one that parses, the file holds exactly that record.      *)
C15_SavedRecordHasExpiresAt ==
    [][\A t \in Threads :
         /\ (pc[t] # "save_write" /\ pc'[t] = "save_write") =>
                /\ newrec'[t].expK = "num"
                /\ newrec'[t].einK = "num" =>
                       newrec'[t].exp = now + newrec'[t].ein
                /\ newrec'[t].einK = "missing" =>
                       newrec'[t].exp = now + 3600
         /\ (SaveWrite(t) /\ file' # file /\ file'.st = "json") =>
                /\ file'.val = newrec[t]
                /\ file'.val.expK = "num"]_vars

C15_Witness ==
    \E t \in Threads :
        /\ pc[t] = "ret"
        /\ newrec[t].einK = "missing"
        /\ file = FileJson(newrec[t])
        /\ file.val.expK = "num"
        /\ file.val.exp = now + 3600

(* C16: a call that finds the token file missing or unparsable loads None  *)
(* without raising and goes to the full authorization, leaving the file    *)
(* as it is.                                                               *)
C16_AbsentOrCorruptMeansNoToken ==
    [][\A t \in Threads :
         (StartCall(t) /\ file.st \in {"absent", "corrupt"}) =>
            /\ load_tokens(file) = NoneVal
            /\ pc'[t] = "auth"
            /\ result'[t] # "Raised"
            /\ tokens'[t] = NoneVal
            /\ file' = file]_vars

C16_Witness ==
    \E t \in Threads :
        /\ pc[t] = "wait"
        /\ tokens[t] = NoneVal
        /\ trace[t].opens = 1
        /\ trace[t].clears = 0
        /\ trace[t].refreshReqs = 0
        /\ file.st = "corrupt"

(* C14: every get_valid_token call that has started eventually ends, so a  *)
(* call waiting on the queue leaves the wait, by getting an item or by the *)
(* timeout, whether or not /callback is ever requested.                    *)
C14_EveryCallReturns ==
    \A t \in Threads : (pc[t] \notin {"idle", "done"}) ~> (pc[t] = "done")

C14_Witness ==
    \E t \in Threads :
        /\ pc[t] = "done"
        /\ trace[t].path = "timeout"
        /\ ncb = 0
        /\ now >= GetTimeout

(* C19: every /callback request puts exactly one item at the end of the    *)
(* queue and answers with the matching status: its code and 200 when it    *)
(* carries a code; the None that signals an error and 400 when it carries  *)
(* an error and no code, and when it carries neither.                      *)
C19_CallbackDeliversOneValue ==
    [][\A c \in 0..attempts, e \in BOOLEAN :
         Callback(c, e) =>
            /\ Len(queue') = Len(queue) + 1
            /\ SubSeq(queue', 1, Len(queue)) = queue
            /\ LET it == queue'[Len(queue')] IN
               IF c # 0 THEN it.val = c /\ it.status = 200
               ELSE it.val = 0 /\ it.status = 400]_vars

C19_Witness ==
    \E i, j \in DOMAIN queue :
        /\ queue[i].val > 0 /\ queue[i].status = 200
        /\ queue[j].val = 0 /\ queue[j].status = 400

(* is_expired as the specification words it, of record v with buffer b at  *)
(* time t: v is absent, or lacks expires_at, or has an expires_at that is  *)
(* no number, or t >= expires_at - b                                       *)
IsExpiredBySpec(v, b, t) ==
    \/ v.kind = "none"
    \/ v.expK = "missing"
    \/ v.expK \notin {"missing", "num"}
    \/ (v.expK = "num" /\ t >= v.exp - b)

(* The record is_token_expired examines: the one passed or, when none is   *)
(* passed, the one load_tokens returns                                     *)
ExaminedRecord == IF unit.rec.kind = "none" THEN load_tokens(file) ELSE unit.rec

(* C12: is_token_expired(record, buffer) is true exactly when the record   *)
(* passed is absent, lacks expires_at, has a non-numeric expires_at, or    *)
(* now >= expires_at - buffer: true for an absent record whatever the file *)
(* holds, true for expires_at = now + 30 and false for expires_at =        *)
(* now + 120 with buffer 60.                                               *)
C12_IsExpiredOfPassedRecord ==
    unit.op = "is_token_expired" =>
        /\ unit.exp = IsExpiredBySpec(unit.rec, unit.n, unit.clock)
        /\ unit.rec.kind = "none" => unit.exp

(* C12 as amended: the same of the record examined, which is the record    *)
(* load_tokens returns when no record is passed.                           *)
C12_IsExpiredOfExaminedRecord ==
    unit.op = "is_token_expired" =>
        /\ unit.exp = IsExpiredBySpec(ExaminedRecord, unit.n, unit.clock)
        /\ (unit.n = 60 /\ unit.rec.expK = "num"
              /\ unit.rec.exp = unit.clock + 30) => unit.exp
        /\ (unit.n = 60 /\ unit.rec.expK = "num"
              /\ unit.rec.exp = unit.clock + 120) => ~unit.exp

C12_Witness ==
    /\ unit.op = "is_token_expired"
    /\ unit.rec = NoneVal
    /\ file.st = "json"
    /\ ~unit.exp
    /\ unit.clock > 0

(* C17: a load_tokens that follows a save_tokens(record), nothing else     *)
(* touching the file, returns a record with the access_token and the       *)
(* refresh_token saved and, when expires_in is a number, expires_at equal  *)
(* to the clock of the save plus expires_in.                               *)
C17_SaveThenLoad ==
    (unit.op = "load_tokens" /\ unit.prev = "save_tokens"
       /\ unit.rec.kind = "dict") =>
        /\ unit.val.kind = "dict"
        /\ unit.val.at = unit.rec.at
        /\ unit.val.rt = unit.rec.rt
        /\ unit.rec.einK = "num" =>
              (unit.val.expK = "num" /\ unit.val.exp = unit.clock + unit.rec.ein)

C17_Witness ==
    /\ unit.op = "load_tokens"
    /\ unit.prev = "save_tokens"
    /\ unit.rec.einK = "num"
    /\ unit.rec.expK = "num"
    /\ unit.val.at = "T1"
    /\ unit.val.exp = unit.clock + 120
    /\ unit.clock > 0
    /\ now > unit.clock

(* C18: clear_tokens leaves the token file absent and raises nothing,      *)
(* whether the file was there or not (so also when it follows another      *)
(* clear_tokens), and a load_tokens that follows it returns None.          *)
C18_ClearIsIdempotentAndTotal ==
    /\ unit.op = "clear_tokens" => (file.st = "absent" /\ ~unit.raised)
    /\ (unit.op = "load_tokens" /\ unit.prev = "clear_tokens") =>
          (unit.val = NoneVal /\ file.st = "absent")

C18_Witness ==
    /\ unit.op = "clear_tokens"
    /\ unit.prev = "clear_tokens"
    /\ file.st = "absent"

(* C20: generate_pkce_verifier(length) raises for every length below 43    *)
(* or above 128; for every other length it returns a string of exactly     *)
(* length characters, the encoding being at least that long before it is   *)
(* cut.                                                                    *)
C20_VerifierLength ==
    unit.op = "generate_pkce_verifier" =>
        IF unit.n < 43 \/ unit.n > 128
        THEN unit.raised
        ELSE /\ ~unit.raised
             /\ unit.enc >= unit.n
             /\ unit.len = unit.n

C20_Witness ==
    /\ unit.op = "generate_pkce_verifier"
    /\ unit.n = 128
    /\ unit.len = 128
    /\ unit.enc > 128
    /\ unit.prev = "generate_pkce_verifier"

(* C21: the code a call sends in its exchange request was issued for the   *)
(* authorization URL of that same call, the one built from the challenge   *)
(* of the verifier it sends along.                                         *)
C21_CodePairedWithOwnVerifier ==
    \A t \in Threads :
        pc[t] = "exchange" => code[t].val = verifier[t]

(* C22: the queue never holds more than one item that was put and not yet  *)
(* got.                                                                    *)
C22_AtMostOneUnconsumedValue ==
    Len(queue) <= 1

(* C23: an attempt goes from its start (the browser is opened once) to its *)
(* wait, leaves the wait by exactly one of a code, the None of a failed    *)
(* callback and the timeout, posts the exchange only after a code, and     *)
(* leaves the exchange by exactly one of the saved tokens and a failure.   *)
(* Every item that leaves the queue ends some attempt's wait, an attempt   *)
(* takes one item at most, and once the call has returned its thread does  *)
(* nothing until its next request.                                         *)
C23_AttemptStateMachine ==
    [][ /\ \A t \in Threads :
            /\ pc'[t] = "wait" /\ pc[t] # "wait" =>
                   pc[t] = "auth" /\ trace'[t].opens = 1 /\ queue' = queue
            /\ pc[t] = "auth" /\ pc'[t] # "auth" => pc'[t] = "wait"
            /\ pc[t] = "wait" /\ pc'[t] # "wait" =>
                   \/ /\ pc'[t] = "exchange"
                      /\ queue # <<>> /\ queue' = Tail(queue)
                      /\ code'[t] = Head(queue) /\ code'[t].val # 0
                      /\ trace'[t].takes = 1
                   \/ /\ pc'[t] = "done" /\ result'[t] = None
                      /\ trace'[t].path = "callback_error"
                      /\ queue # <<>> /\ queue' = Tail(queue)
                      /\ Head(queue).val = 0
                   \/ /\ pc'[t] = "done" /\ result'[t] = None
                      /\ trace'[t].path = "timeout"
                      /\ queue = <<>> /\ queue' = queue
            /\ pc'[t] = "exchange" /\ pc[t] # "exchange" => pc[t] = "wait"
            /\ pc[t] = "exchange" /\ pc'[t] # "exchange" =>
                   \/ /\ pc'[t] = "save_write"
                      /\ trace'[t].path = "exchange"
                      /\ trace'[t].takes = 1
                   \/ /\ pc'[t] = "done"
                      /\ trace'[t].path \in {"exchange_failed", "raised"}
            /\ pc[t] \in {"save_write", "ret"}
                 /\ trace[t].path = "exchange" /\ pc'[t] # pc[t] =>
                   /\ pc[t] = "save_write" => pc'[t] = "ret"
                   /\ pc[t] = "ret" =>
                          pc'[t] = "done" /\ trace'[t].path = "exchange"
            /\ pc[t] = "done" /\ pc'[t] # "done" => calls' = calls + 1
            /\ trace'[t].takes <= 1 /\ trace'[t].opens <= 1
        /\ Len(queue') < Len(queue) =>
               \E t \in Threads :
                   pc[t] = "wait" /\ pc'[t] \in {"exchange", "done"}
      ]_vars

C23_Witness ==
    \E t \in Threads :
        /\ pc[t] = "ret" /\ trace[t].path = "exchange"
        /\ trace[t].opens = 1 /\ trace[t].takes = 1 /\ trace[t].writes = 1

(* C24: a call of get_valid_token posts one refresh request at most and    *)
(* one exchange request at most.  It comes to its refresh request only     *)
(* from its start and to its exchange request only from its one wait, and  *)
(* the step that gets the answer, a failure included, takes it on to       *)
(* something else.                                                         *)
C24_NoRetry ==
    [][\A t \in Threads :
           /\ pc'[t] = "refresh" /\ (pc[t] # "refresh" \/ trace'[t] # trace[t])
                  => pc[t] \in {"idle", "done"} /\ calls' = calls + 1
           /\ pc[t] = "refresh" /\ pc'[t] # "refresh" =>
                  /\ trace[t].refreshReqs = 0
                  /\ pc'[t] # "done" => trace'[t].refreshReqs = 1
           /\ pc'[t] = "exchange" /\ (pc[t] # "exchange" \/ trace'[t] # trace[t])
                  => pc[t] = "wait" /\ trace[t].takes = 0
                        /\ trace[t].exchReqs = 0
           /\ pc[t] = "exchange" /\ pc'[t] # "exchange" =>
                  /\ trace[t].exchReqs = 0
                  /\ pc'[t] = "save_write" => trace'[t].exchReqs = 1
           /\ pc[t] \notin {"refresh", "exchange"} =>
                  /\ trace'[t].refreshReqs \in {0, trace[t].refreshReqs}
                  /\ trace'[t].exchReqs \in {0, trace[t].exchReqs}
      ]_vars

C24_Witness ==
    \E t \in Threads :
        /\ pc[t] = "exchange"
        /\ trace[t].refresh = "failed" /\ trace[t].refreshReqs = 1

(* C25: in every state a GET /callback can be served to its end, with a    *)
(* code, with an error or with neither, whatever the queue holds and       *)
(* whatever the calls of get_valid_token are doing, one blocked in         *)
(* queue.get on another thread included (MaxCallbacks bounds the requests  *)
(* of a run).                                                              *)
C25_CallbackNeverBlocks ==
    ncb < MaxCallbacks =>
        \A c \in 0..attempts, e \in BOOLEAN :
            /\ ENABLED Callback(c, e)
            /\ oauth_callback(c, e).status \in {200, 400}

C25_Witness ==
    \E t \in Threads :
        /\ pc[t] = "wait" /\ trace[t].cbAtOpen = 0
        /\ Len(queue) = 2 /\ ncb = 2

(* C26: the record a successful exchange or refresh saves is the response  *)
(* with its expires_at and nothing else, a response without refresh token  *)
(* gives a record without one, and after the write of the save the file    *)
(* holds exactly that record.                                              *)
C26_SaveReplacesWholesale ==
    [][\A t \in Threads :
           /\ pc'[t] = "save_write" /\ pc[t] # "save_write" =>
                  \E body \in ResponseBodies :
                      /\ body.kind = "dict"
                      /\ newrec'[t] = with_expires_at(body, now)
                      /\ GetRefreshToken(newrec'[t]) = GetRefreshToken(body)
                      /\ GetAccessToken(newrec'[t]) = GetAccessToken(body)
           /\ pc[t] = "save_write" /\ pc'[t] = "ret" =>
                  file' = FileJson(newrec[t])
      ]_vars

(* C27: the step in which a refresh request fails otherwise than by        *)
(* invalid_grant leaves the token file as it is, and the file goes from    *)
(* present to absent only in a step that is the refresh answered           *)
(* invalid_grant or the clear of an expired record without refresh token.  *)
C27_FailedRefreshKeepsFile ==
    [][ /\ \A t \in Threads :
            pc[t] = "refresh" /\ pc'[t] = "auth"
              /\ trace'[t].refresh \in {"failed", "null"} =>
                /\ file' = file
                /\ trace'[t].clears = trace[t].clears
        /\ file.st # "absent" /\ file'.st = "absent" =>
               \E t \in Threads :
                   /\ trace'[t].clears = trace[t].clears + 1
                   /\ \/ pc[t] = "clear"
                      \/ /\ pc[t] = "refresh"
                         /\ trace'[t].refresh = "invalid_grant"
      ]_vars

C27_Witness ==
    \E t \in Threads :
        /\ pc[t] = "auth" /\ trace[t].refresh = "failed"
        /\ trace[t].clears = 0
        /\ file = FileJson(tokens[t])

(* C28: the step in which the exchange request fails, by an error status,  *)
(* a transport error or an unreadable body, ends the call with None and    *)
(* leaves the token file and its open handles as they were: nothing is     *)
(* saved.                                                                  *)
C28_FailedExchangeKeepsFile ==
    [][\A t \in Threads :
           pc[t] = "exchange" /\ pc'[t] = "done"
             /\ trace'[t].path = "exchange_failed" =>
               /\ result'[t] = None
               /\ file' = file /\ orphans' = orphans
               /\ trace[t].writes = 0
      ]_vars

C28_Witness ==
    \E t \in Threads :
        /\ pc[t] = "done" /\ trace[t].path = "exchange_failed"
        /\ trace[t].cause = "http_error" /\ result[t] = None
        /\ file.st = "json"

(* C29: the step in which a waiting call gets the None of a failed         *)
(* callback ends the call with None; the call has posted no exchange       *)
(* request and written nothing, and the step leaves the token file as it   *)
(* was.                                                                    *)
C29_ErrorSentinelFailsWithoutExchange ==
    [][\A t \in Threads :
           pc[t] = "wait" /\ pc'[t] # "wait"
             /\ queue # <<>> /\ Head(queue).val = 0 =>
               /\ pc'[t] = "done" /\ result'[t] = None
               /\ trace'[t].path = "callback_error"
               /\ trace[t].exchReqs = 0 /\ trace[t].writes = 0
               /\ file' = file /\ orphans' = orphans
      ]_vars

C29_Witness ==
    \E t \in Threads :
        /\ pc[t] = "done" /\ trace[t].path = "callback_error"
        /\ result[t] = None /\ file.st = "json"

(* C30: a request whose get_valid_token failed is answered 401 when the    *)
(* user denied, the wait timed out or the token endpoint rejected the      *)
(* code, and 500 when get_valid_token raised or the token endpoint could   *)
(* not be reached.                                                         *)
C30_StatusDependsOnCause ==
    \A t \in Threads :
        pc[t] = "done" =>
            /\ (trace[t].path \in {"callback_error", "timeout"}
                  \/ trace[t].cause = "http_error")
                   => route_status(result[t]) = 401
            /\ (trace[t].path = "raised"
                  \/ trace[t].cause = "network_error")
                   => route_status(result[t]) = 500

(* C31: when get_valid_token has returned a token to a route, the token    *)
(* the API client finds for the request that follows is that token.        *)
C31_ClientUsesReturnedToken ==
    \A t \in Threads :
        pc[t] = "done" /\ result[t] \notin {None, "Raised"} =>
            trace[t].bearer = result[t]

(* C32: in the step in which get_valid_token returns an access token, the  *)
(* record the token is taken from (the stored one, or the one just saved   *)
(* after a refresh or an exchange) is not expired under is_token_expired   *)
(* with the buffer of 60 seconds.                                          *)
C32_ReturnedTokenNotExpired ==
    [][\A t \in Threads :
           /\ GvtReturn(t) /\ result'[t] # None =>
                  ~is_token_expired(newrec[t], BufferSeconds, file, now)
           /\ StartCall(t) /\ pc'[t] = "done"
                /\ result'[t] \notin {None, "Raised"} =>
                  ~is_token_expired(load_tokens(file), BufferSeconds, file,
                                    now)
      ]_vars

(* What a call of get_valid_token started on file f at time t does first:  *)
(* it goes to the full authorization (after the clear of an expired record *)
(* without refresh token, if that is what the file holds)                  *)
NextCallAuthorizes(f, t) ==
    LET tk == load_tokens(f) IN
    \/ ~Truthy(tk)
    \/ /\ tk.kind = "dict"
       /\ is_token_expired(tk, BufferSeconds, f, t)
       /\ GetRefreshToken(tk) = None

(* A call is about to return the token of an exchange whose save wrote     *)
(* nothing                                                                 *)
ExchangeSaveFailed(t) ==
    pc[t] = "ret" /\ trace[t].path = "exchange" /\ trace[t].writes = 0

C34_PkcePairSingleUse ==
    [][\A t \in Threads :
           /\ pc'[t] = "wait" /\ pc[t] # "wait" =>
                  /\ pc[t] = "auth"
                  /\ verifier'[t] = attempts' /\ attempts' = attempts + 1
                  /\ \A u \in Threads : verifier[u] <= attempts
                  /\ trace'[t].url.query.code_challenge
                         = calculate_pkce_challenge(verifier'[t])
           /\ verifier[t] # 0 /\ verifier'[t] # verifier[t] =>
                  verifier'[t] = 0 /\ pc'[t] = "done"
           /\ pc'[t] = "exchange" =>
                  /\ pc[t] \in {"wait", "exchange"}
                  /\ verifier'[t] # 0
                  /\ trace'[t].url.query.code_challenge
                         = calculate_pkce_challenge(verifier'[t])
                  /\ \A u \in Threads \ {t} : verifier'[u] # verifier'[t]
           /\ pc[t] = "exchange" /\ pc'[t] # "exchange" =>
                  pc'[t] \in {"save_write", "done"}
           /\ pc[t] \in {"save_write", "ret"} => pc'[t] \notin {"wait", "exchange"}
      ]_vars

C34_Witness ==
    \E t, u \in Threads :
        /\ pc[t] = "exchange" /\ verifier[t] = 1
        /\ pc[u] = "wait" /\ verifier[u] = 2
        /\ trace[u].url.query.code_challenge = calculate_pkce_challenge(2)

(* C35: when config.py found no client id or no issuer URL, no call of     *)
(* get_valid_token opens a browser or waits for a callback, and none       *)
(* sends a request to the token endpoint.                                  *)
C35_MissingConfigFailsBeforeActing ==
    (config.CLIENT_ID = None \/ config.AUTH_WORKER_URL = None) =>
        \A t \in Threads :
            /\ trace[t].opens = 0
            /\ pc[t] \notin {"wait", "exchange"}
            /\ config.AUTH_WORKER_URL # None =>
                   trace[t].refreshReqs = 0 /\ trace[t].exchReqs = 0

(* C36: the authorization URL an attempt has opened has exactly the six    *)
(* query parameters response_type=code, client_id, redirect_uri, scope,    *)
(* code_challenge and code_challenge_method=S256, with the configured      *)
(* values and the S256 challenge of the verifier of that attempt.          *)
C36_AuthUrlHasSixParameters ==
    \A t \in Threads :
        trace[t].opens > 0 =>
            LET q == trace[t].url.query IN
            /\ DOMAIN q = {"response_type", "client_id", "redirect_uri",
                           "scope", "code_challenge",
                           "code_challenge_method"}
            /\ q.response_type = "code"
            /\ q.code_challenge_method = "S256"
            /\ q.client_id = config.CLIENT_ID /\ q.client_id # None
            /\ q.redirect_uri = config.REDIRECT_URI
            /\ q.scope = config.SCOPES
            /\ q.code_challenge = calculate_pkce_challenge(verifier[t])

C36_Witness ==
    \E t \in Threads :
        /\ pc[t] = "wait" /\ trace[t].opens = 1 /\ verifier[t] = 2
        /\ trace[t].url = auth_url(FullConfig, calculate_pkce_challenge(2))

====
